---- MODULE Spec2Model ----
(***************************************************************************)
(* Model of wisharify (src/main.py): one run of main(), from installing    *)
(* the keyring backend to the QR window or the error dialog.               *)
(*                                                                         *)
(* Text is a sequence of one-character strings.  An optional value         *)
(* (Python's  str | None) is a sequence of length at most one:  None is    *)
(* <<>> and the text t is <<t>>.                                           *)
(***************************************************************************)
EXTENDS Integers, Sequences, FiniteSets, TLC

\* ------------------------------------------------------------------ bounds
MaxNets  == 2   \* lines of the Wi-Fi listing
MaxConns == 2   \* lines of the connection listing

\* SSIDs the scanned networks may carry: hidden (empty), plain, with a colon.
SSIDS == { <<>>, <<"a">>, <<"b">>, <<"a", ":", "b">> }
\* UUIDs of connection profiles.
UUIDS == { <<"u", "1">>, <<"u", "2">> }
\* SSIDs a connection profile may be for (None: a wired or VPN profile).
ConnSsids == { <<"a">>, <<"b">>, <<"a", ":", "b">> }
\* What the elevated command may print on stdout.
PskOutputs == { <<>>, <<"\n">>, <<"p", "\n">>, <<"p", "q", "\n">> }
\* Exit codes of a subprocess.
ReturnCodes == {0, 1}
\* Accounts and passwords the credential store may hold before the run.
InitAccounts  == { <<"a">>, <<"a", "\\">> }
InitPasswords == { <<>>, <<"k">> }

\* --------------------------------------------------------------- constants
KEYRING_SERVICE_NAME == "nmcli-wifi"
Whitespace == {" ", "\n", "\t"}
YES == <<"y", "e", "s">>
NO  == <<"n", "o">>

None == <<>>
Some(t) == <<t>>

\* Python truthiness of a  str | None : neither None nor the empty string.
Truthy(opt) == opt # None /\ opt[1] # <<>>

\* ------------------------------------------------------------ text helpers
RECURSIVE LStrip(_)
LStrip(s) == IF s # <<>> /\ Head(s) \in Whitespace THEN LStrip(Tail(s)) ELSE s

RECURSIVE RStrip(_)
RStrip(s) ==
    IF s # <<>> /\ s[Len(s)] \in Whitespace
        THEN RStrip(SubSeq(s, 1, Len(s) - 1))
        ELSE s

\* str.strip()
Strip(s) == RStrip(LStrip(s))

RECURSIVE SplitAcc(_, _, _)
SplitAcc(s, sep, cur) ==
    IF s = <<>> THEN << cur >>
    ELSE IF Head(s) = sep
        THEN << cur >> \o SplitAcc(Tail(s), sep, <<>>)
        ELSE SplitAcc(Tail(s), sep, Append(cur, Head(s)))

\* str.split(sep) for a one-character separator
Split(s, sep) == SplitAcc(s, sep, <<>>)

\* str.splitlines(): no empty last line
SplitLines(s) ==
    LET parts == Split(s, "\n")
    IN  IF parts[Len(parts)] = <<>>
            THEN SubSeq(parts, 1, Len(parts) - 1)
            ELSE parts

\* str.startswith(prefix)
StartsWith(s, prefix) ==
    Len(s) >= Len(prefix) /\ SubSeq(s, 1, Len(prefix)) = prefix

\* ------------------------------------------------- the network-manager CLI
\* nmcli -t (terse) separates fields by ":" and escapes ":" and "\" in values.
RECURSIVE Escape(_)
Escape(v) ==
    IF v = <<>> THEN <<>>
    ELSE IF Head(v) \in {":", "\\"}
        THEN << "\\", Head(v) >> \o Escape(Tail(v))
        ELSE << Head(v) >> \o Escape(Tail(v))

ActiveField(active) == IF active THEN YES ELSE NO

\* One line per row, each ended by a newline.
RECURSIVE TerseLines(_)
TerseLines(rows) ==
    IF rows = <<>> THEN <<>>
    ELSE ActiveField(rows[1].active) \o <<":">> \o Escape(rows[1].value)
            \o <<"\n">> \o TerseLines(Tail(rows))

\* nmcli -t -f active,ssid dev wifi
WifiListing(nets) ==
    TerseLines([i \in 1..Len(nets) |-> [active |-> nets[i].active, value |-> nets[i].ssid]])

\* nmcli -t -f active,uuid connection show
ConnListing(conns) ==
    TerseLines([i \in 1..Len(conns) |-> [active |-> conns[i].active, value |-> conns[i].uuid]])

Nets  == [active : BOOLEAN, ssid : SSIDS]
Conns == [active : BOOLEAN, uuid : UUIDS, ssid : {None} \cup {Some(s) : s \in ConnSsids}]

SeqsUpTo(S, n) == UNION { [1..k -> S] : k \in 0..n }

\* The SSID field of the first active network, None when none is active.
ActiveSsid(nets) ==
    IF \E i \in 1..Len(nets) : nets[i].active
        THEN LET i == CHOOSE k \in 1..Len(nets) :
                        nets[k].active /\ \A j \in 1..(k - 1) : ~nets[j].active
             IN  Some(nets[i].ssid)
        ELSE None

\* The UUID field of the first active connection, None when none is active.
ActiveUuid(conns) ==
    IF \E i \in 1..Len(conns) : conns[i].active
        THEN LET i == CHOOSE k \in 1..Len(conns) :
                        conns[k].active /\ \A j \in 1..(k - 1) : ~conns[j].active
             IN  Some(conns[i].uuid)
        ELSE None

\* The UUIDs of the active connections that are profiles of the Wi-Fi network s.
UuidsOfSsid(conns, s) ==
    { conns[i].uuid : i \in { k \in 1..Len(conns) :
                                conns[k].active /\ conns[k].ssid = s } }

\* --------------------------------------------------------- src/main.py code
\* run_command: raise on a non-zero exit code, else the stripped stdout.
RunCommand(rc, stdout) ==
    IF rc # 0 THEN [raised |-> TRUE,  out |-> <<>>]
              ELSE [raised |-> FALSE, out |-> Strip(stdout)]

\* for line in output.splitlines(): if line.startswith("yes"):
\*     x = line.split(":")[1]
\* The result is None when no line starts with "yes" and when the line has no
\* second field (IndexError, caught by the callers' except Exception).
FirstYesField(output) ==
    LET lines == SplitLines(output)
    IN  IF \E i \in 1..Len(lines) : StartsWith(lines[i], YES)
            THEN LET i == CHOOSE k \in 1..Len(lines) :
                            /\ StartsWith(lines[k], YES)
                            /\ \A j \in 1..(k - 1) : ~StartsWith(lines[j], YES)
                     fields == Split(lines[i], ":")
                 IN  IF Len(fields) >= 2 THEN Some(fields[2]) ELSE None
            ELSE None

\* get_current_ssid, after the command completed
GetCurrentSsid(rc, stdout) ==
    LET r == RunCommand(rc, stdout)
    IN  IF r.raised THEN None ELSE FirstYesField(r.out)

\* get_wifi_password, first command: the uuid of the active connection
ActiveConnectionUuid(rc, stdout) ==
    LET r == RunCommand(rc, stdout)
    IN  IF r.raised THEN None ELSE FirstYesField(r.out)

\* get_wifi_password, second command: return password.strip(), None on failure
RetrievedPassword(rc, stdout) ==
    LET r == RunCommand(rc, stdout)
    IN  IF r.raised THEN None ELSE Some(Strip(r.out))

\* Variant: the two values in each other's place.
WifiConfigSwapped(s, p) ==
    <<"W","I","F","I",":","T",":","W","P","A",";","S",":">> \o p
        \o <<";","P",":">> \o s \o <<";",";">>

\* show_qr_code: wifi_config = f"WIFI:T:WPA;S:{ssid};P:{password};;"
WifiConfig(s, p) ==
    <<"W","I","F","I",":","T",":","W","P","A",";","S",":">> \o s
        \o <<";","P",":">> \o p \o <<";",";">>

\* keyring.get_password(service, account)
GetPassword(st, service, account) ==
    IF <<service, account>> \in DOMAIN st THEN Some(st[<<service, account>>]) ELSE None

\* keyring.set_password(service, account, value)
SetPassword(st, service, account, value) ==
    [k \in DOMAIN st \cup {<<service, account>>} |->
        IF k = <<service, account>> THEN value ELSE st[k]]

\* ------------------------------------------------------------------- state
VARIABLES
    pc,          \* position of main()
    store,       \* the credential store: <<service, account>> -> password
    ssid,        \* main's ssid (str | None)
    password,    \* main's password (str | None)
    uuid,        \* get_wifi_password's uuid (str | None)
    cached,      \* what keyring.get_password returned
    inflight,    \* subprocesses started by run_command and not yet completed
    cmds,        \* the commands started, in order
    events,      \* what the run did, in order
    setCalls,    \* the keyring.set_password calls, in order
    qrText,      \* the text encoded into the QR code (None: no window shown)
    qrArgs,      \* the <<ssid, password>> show_qr_code was called with
    retrieved,   \* what get_wifi_password returned
    store0,      \* the credential store before the run
    netSsid,     \* the SSID of the first active network of the Wi-Fi listing
    netUuid,     \* the UUID of the first active connection of the listing
    ssidUuids    \* the UUIDs of the active profiles of the detected SSID

vars == << pc, store, ssid, password, uuid, cached, inflight, cmds, events,
           setCalls, qrText, qrArgs, retrieved, store0, netSsid, netUuid,
           ssidUuids >>

Init ==
    /\ pc = "start"
    /\ \E dom \in SUBSET InitAccounts : \E f \in [dom -> InitPasswords] :
           store = [k \in { <<KEYRING_SERVICE_NAME, a>> : a \in dom } |-> f[k[2]]]
    /\ ssid = None
    /\ password = None
    /\ uuid = None
    /\ cached = None
    /\ inflight = 0
    /\ cmds = <<>>
    /\ events = <<>>
    /\ setCalls = <<>>
    /\ qrText = None
    /\ qrArgs = None
    /\ retrieved = None
    /\ store0 = store
    /\ netSsid = None
    /\ netUuid = None
    /\ ssidUuids = {}

\* ----------------------------------------------------- main's control flow
\* Variant: tests  ssid is None  instead of  not ssid.
AfterSsidNotNone(s) == IF s # None THEN "get_pw" ELSE "no_ssid"

\* Variant: retrieves the password without asking the credential store.
AfterSsidConnFirst(s) == IF Truthy(s) THEN "conn_cmd" ELSE "no_ssid"

\* line 155: if not ssid: ... return
AfterSsid(s) == IF Truthy(s) THEN "get_pw" ELSE "no_ssid"

\* Variant: retrieves the password whatever the credential store returned.
NeedsRetrievalAlways(pw) == TRUE

\* line 162: if not password: password = await get_wifi_password(ssid)
NeedsRetrieval(pw) == ~Truthy(pw)

\* Variant: never caches the retrieved password.
ShouldCacheNever(pw) == FALSE

\* line 164: if password: keyring.set_password(...)
ShouldCache(pw) == Truthy(pw)

\* line 167: if password: show_qr_code(...) else: error dialog
Display(pw) == IF Truthy(pw) THEN "show_qr" ELSE "not_found"

\* Variant: runs the failed command again.
AfterCommandFailureRetry(again) == again

\* get_wifi_password, except Exception: return None (the command is not retried)
AfterCommandFailure(again) == "after_retrieval"

\* Variant: a failed set_password is ignored and the run goes on.
OnSetPasswordErrorIgnored == "display"

\* line 172: except (CalledProcessError, KeyringError): error dialog
OnSetPasswordError == "critical"

\* ------------------------------------------------------------------ actions
\* line 151: keyring.set_keyring(Keyring()), before the try block
SetKeyring ==
    /\ pc = "start"
    /\ \E raises \in BOOLEAN :
          IF raises
              THEN /\ pc' = "done"
                   /\ events' = Append(events, "uncaught")
              ELSE /\ pc' = "wifi_cmd"
                   /\ events' = Append(events, "set_keyring")
    /\ UNCHANGED << store, ssid, password, uuid, cached, inflight, cmds,
                    setCalls, qrText, qrArgs, retrieved, store0, netSsid,
                    netUuid, ssidUuids >>

\* get_current_ssid: run_command starts the Wi-Fi listing
WifiListStart ==
    /\ pc = "wifi_cmd"
    /\ pc' = "wifi_wait"
    /\ inflight' = inflight + 1
    /\ cmds' = Append(cmds, [cmd |-> "wifi_list", arg |-> None])
    /\ events' = Append(events, "wifi_start")
    /\ UNCHANGED << store, ssid, password, uuid, cached, setCalls, qrText,
                    qrArgs, retrieved, store0, netSsid, netUuid, ssidUuids >>

\* get_current_ssid: the listing completes, is parsed, and main tests the ssid
WifiListDone ==
    /\ pc = "wifi_wait"
    /\ \E rc \in ReturnCodes, nets \in SeqsUpTo(Nets, MaxNets) :
          LET s == GetCurrentSsid(rc, WifiListing(nets))
          IN  /\ ssid' = s
              /\ netSsid' = IF rc = 0 THEN ActiveSsid(nets) ELSE None
              /\ pc' = AfterSsid(s)
    /\ inflight' = inflight - 1
    /\ events' = Append(events, "wifi_done")
    /\ UNCHANGED << store, password, uuid, cached, cmds, setCalls, qrText,
                    qrArgs, retrieved, store0, netUuid, ssidUuids >>

\* line 157: messagebox.showerror("Error", "No SSID detected. ..."); return
NoSsidDialog ==
    /\ pc = "no_ssid"
    /\ pc' = "done"
    /\ events' = Append(events, "dlg_no_ssid")
    /\ UNCHANGED << store, ssid, password, uuid, cached, inflight, cmds,
                    setCalls, qrText, qrArgs, retrieved, store0, netSsid,
                    netUuid, ssidUuids >>

\* line 161: password = keyring.get_password(KEYRING_SERVICE_NAME, ssid)
KeyringGet ==
    /\ pc = "get_pw"
    /\ events' = Append(events, "kr_get")
    /\ \E raises \in BOOLEAN :
          IF raises
              THEN /\ pc' = "critical"
                   /\ UNCHANGED << password, cached >>
              ELSE LET pw == GetPassword(store, KEYRING_SERVICE_NAME, ssid[1])
                   IN  /\ password' = pw
                       /\ cached' = pw
                       /\ pc' = IF NeedsRetrieval(pw) THEN "conn_cmd" ELSE "display"
    /\ UNCHANGED << store, ssid, uuid, inflight, cmds, setCalls, qrText,
                    qrArgs, retrieved, store0, netSsid, netUuid, ssidUuids >>

\* get_wifi_password: run_command starts the connection listing
ConnListStart ==
    /\ pc = "conn_cmd"
    /\ pc' = "conn_wait"
    /\ inflight' = inflight + 1
    /\ cmds' = Append(cmds, [cmd |-> "conn_list", arg |-> None])
    /\ events' = Append(events, "conn_start")
    /\ UNCHANGED << store, ssid, password, uuid, cached, setCalls, qrText,
                    qrArgs, retrieved, store0, netSsid, netUuid, ssidUuids >>

\* The connection listing of a machine connected to the network netSsid holds
\* an active profile of that network; when the link has dropped since the
\* Wi-Fi listing, no connection is active.
ConnsOfMachine ==
    { conns \in SeqsUpTo(Conns, MaxConns) :
        \/ \E i \in 1..Len(conns) : conns[i].active /\ conns[i].ssid = netSsid
        \/ \A i \in 1..Len(conns) : ~conns[i].active }

\* get_wifi_password: the listing completes and the uuid is looked for
ConnListDone ==
    /\ pc = "conn_wait"
    /\ \E rc \in ReturnCodes, conns \in ConnsOfMachine :
          LET u == ActiveConnectionUuid(rc, ConnListing(conns))
          IN  /\ uuid' = u
              /\ netUuid' = IF rc = 0 THEN ActiveUuid(conns) ELSE None
              /\ ssidUuids' = IF rc = 0 THEN UuidsOfSsid(conns, ssid) ELSE {}
              /\ IF rc # 0
                    THEN pc' = AfterCommandFailure("conn_cmd")
                    ELSE pc' = IF u = None THEN "after_retrieval" ELSE "psk_cmd"
              /\ password' = IF rc = 0 /\ u # None THEN password ELSE None
    /\ inflight' = inflight - 1
    /\ events' = Append(events, "conn_done")
    /\ UNCHANGED << store, ssid, cached, cmds, setCalls, qrText, qrArgs,
                    retrieved, store0, netSsid >>

\* get_wifi_password: run_command starts
\*   pkexec nmcli -s -g 802-11-wireless-security.psk connection show <uuid>
PskStart ==
    /\ pc = "psk_cmd"
    /\ pc' = "psk_wait"
    /\ inflight' = inflight + 1
    /\ cmds' = Append(cmds, [cmd |-> "pkexec_psk", arg |-> uuid])
    /\ events' = Append(events, "psk_start")
    /\ UNCHANGED << store, ssid, password, uuid, cached, setCalls, qrText,
                    qrArgs, retrieved, store0, netSsid, netUuid, ssidUuids >>

\* get_wifi_password: the elevated command completes
PskDone ==
    /\ pc = "psk_wait"
    /\ \E rc \in ReturnCodes, out \in PskOutputs :
          /\ password' = RetrievedPassword(rc, out)
          /\ pc' = IF rc # 0 THEN AfterCommandFailure("psk_cmd") ELSE "after_retrieval"
    /\ inflight' = inflight - 1
    /\ events' = Append(events, "psk_done")
    /\ UNCHANGED << store, ssid, uuid, cached, cmds, setCalls, qrText, qrArgs,
                    retrieved, store0, netSsid, netUuid, ssidUuids >>

\* line 163-164: get_wifi_password has returned; cache the password if any
AfterRetrieval ==
    /\ pc = "after_retrieval"
    /\ pc' = IF ShouldCache(password) THEN "set_pw" ELSE "display"
    /\ retrieved' = password
    /\ events' = Append(events, "retrieved")
    /\ UNCHANGED << store, ssid, password, uuid, cached, inflight, cmds,
                    setCalls, qrText, qrArgs, store0, netSsid, netUuid,
                    ssidUuids >>

\* line 165: keyring.set_password(KEYRING_SERVICE_NAME, ssid, password)
KeyringSet ==
    /\ pc = "set_pw"
    /\ setCalls' = Append(setCalls, [service |-> KEYRING_SERVICE_NAME,
                                     account |-> ssid[1], value |-> password[1]])
    /\ \E raises \in BOOLEAN :
          IF raises
              THEN /\ pc' = OnSetPasswordError
                   /\ events' = Append(events, "kr_set_error")
                   /\ UNCHANGED store
              ELSE /\ pc' = "display"
                   /\ events' = Append(events, "kr_set")
                   /\ store' = SetPassword(store, KEYRING_SERVICE_NAME, ssid[1], password[1])
    /\ UNCHANGED << ssid, password, uuid, cached, inflight, cmds, qrText,
                    qrArgs, retrieved, store0, netSsid, netUuid, ssidUuids >>

\* line 167: if password: ... else: ...
Branch ==
    /\ pc = "display"
    /\ pc' = Display(password)
    /\ UNCHANGED << store, ssid, password, uuid, cached, inflight, cmds, events,
                    setCalls, qrText, qrArgs, retrieved, store0, netSsid,
                    netUuid, ssidUuids >>

\* line 168: show_qr_code(ssid, password)
ShowQrCode ==
    /\ pc = "show_qr"
    /\ pc' = "done"
    /\ qrArgs' = Some(<< ssid[1], password[1] >>)
    /\ qrText' = Some(WifiConfig(ssid[1], password[1]))
    /\ events' = Append(events, "qr")
    /\ UNCHANGED << store, ssid, password, uuid, cached, inflight, cmds,
                    setCalls, retrieved, store0, netSsid, netUuid, ssidUuids >>

\* line 171: messagebox.showerror("Error", "Password not found for SSID ...")
NotFoundDialog ==
    /\ pc = "not_found"
    /\ pc' = "done"
    /\ events' = Append(events, "dlg_not_found")
    /\ UNCHANGED << store, ssid, password, uuid, cached, inflight, cmds,
                    setCalls, qrText, qrArgs, retrieved, store0, netSsid,
                    netUuid, ssidUuids >>

\* line 174: messagebox.showerror("Critical Error", ...)
CriticalDialog ==
    /\ pc = "critical"
    /\ pc' = "done"
    /\ events' = Append(events, "dlg_critical")
    /\ UNCHANGED << store, ssid, password, uuid, cached, inflight, cmds,
                    setCalls, qrText, qrArgs, retrieved, store0, netSsid,
                    netUuid, ssidUuids >>

Next ==
    \/ SetKeyring
    \/ WifiListStart
    \/ WifiListDone
    \/ NoSsidDialog
    \/ KeyringGet
    \/ ConnListStart
    \/ ConnListDone
    \/ PskStart
    \/ PskDone
    \/ AfterRetrieval
    \/ KeyringSet
    \/ Branch
    \/ ShowQrCode
    \/ NotFoundDialog
    \/ CriticalDialog

Spec == Init /\ [][Next]_vars

\* ------------------------------------------------------- reading the run
Has(e) == \E i \in DOMAIN events : events[i] = e

Count(E) == Cardinality({ i \in DOMAIN events : events[i] \in E })

\* Every occurrence of b comes after an occurrence of a.
Precedes(a, b) ==
    \A j \in DOMAIN events :
        events[j] = b => \E i \in 1..(j - 1) : events[i] = a

Dialogs == {"dlg_no_ssid", "dlg_not_found", "dlg_critical"}

Done == pc = "done"

Starts == {"wifi_start", "conn_start", "psk_start"}
Ends   == {"wifi_done", "conn_done", "psk_done"}

\* The events of the run, where both are ranked, occur in the order of rank.
InOrder(rank) ==
    \A i, j \in DOMAIN events :
        (i < j /\ events[i] \in DOMAIN rank /\ events[j] \in DOMAIN rank)
            => rank[events[i]] < rank[events[j]]

\* Steps 1 to 5 as the specification numbers them.
SpecOrder ==
    ("wifi_start" :> 1) @@ ("wifi_done" :> 2) @@ ("conn_start" :> 3) @@
    ("conn_done" :> 4) @@ ("kr_get" :> 5) @@ ("psk_start" :> 6) @@
    ("psk_done" :> 7) @@ ("qr" :> 8)

\* The order with the credential-store check before the connection listing.
CheckFirstOrder ==
    ("wifi_start" :> 1) @@ ("wifi_done" :> 2) @@ ("kr_get" :> 3) @@
    ("conn_start" :> 4) @@ ("conn_done" :> 5) @@ ("psk_start" :> 6) @@
    ("psk_done" :> 7) @@ ("qr" :> 8)

\* A non-empty password was obtained, from the store or from the elevated command.
Obtained == Truthy(cached) \/ Truthy(retrieved)

CacheKey == << "nmcli-wifi", ssid[1] >>

\* ------------------------------------------------------------------- claims

\* C1: every failure of a run (a failed command, no SSID, no password, an error
\* raised by a keyring call, set_keyring included) ends with exactly one error
\* dialog: never none, never two, and never an uncaught exception instead.
C1_EveryFailureOneDialog ==
    /\ Count(Dialogs) <= 1
    /\ ~Has("uncaught")
    /\ (Done /\ qrText = None) => Count(Dialogs) = 1

\* C2: the elevated command runs only when the credential store gave no
\* password for the detected SSID; on a cache hit neither the connection listing
\* nor the elevated command is started, and show_qr_code gets the cached password.
C2_CacheHitRunsNoCommand ==
    /\ Has("psk_start") => ~Truthy(cached)
    /\ Truthy(cached) =>
        /\ \A i \in DOMAIN cmds : cmds[i].cmd \notin {"conn_list", "pkexec_psk"}
        /\ ~Has("conn_start") /\ ~Has("psk_start")
        /\ Done => qrArgs = Some(<< ssid[1], cached[1] >>)

C2_Witness == Done /\ Truthy(cached) /\ Has("qr") /\ Len(cmds) = 1

\* C3: keyring.set_password is called at most once, exactly when the lookup
\* found nothing and get_wifi_password returned a non-empty password, with
\* service "nmcli-wifi", the detected SSID and the retrieved password, before
\* the QR window; in every other run the credential store is left as it was.
C3_StoreWrittenOnceOnMiss ==
    /\ Len(setCalls) <= 1
    /\ Len(setCalls) = 1 =>
        /\ Has("kr_get") /\ ~Truthy(cached) /\ Truthy(retrieved)
        /\ setCalls[1] = [service |-> "nmcli-wifi", account |-> ssid[1],
                          value |-> retrieved[1]]
        /\ \A j \in DOMAIN events : events[j] = "qr" =>
              \E i \in 1..(j - 1) : events[i] = "kr_set"
    /\ (Truthy(retrieved) /\ pc # "set_pw") => Len(setCalls) = 1
    /\ Has("kr_set") =>
        /\ DOMAIN store = DOMAIN store0 \cup {CacheKey}
        /\ store[CacheKey] = retrieved[1]
        /\ \A k \in DOMAIN store0 \ {CacheKey} : store[k] = store0[k]
    /\ ~Has("kr_set") => store = store0

C3_Witness == Done /\ Has("kr_set") /\ Has("qr") /\ store # store0

\* C4 as stated: when an SSID is found, the Wi-Fi listing completes, then the
\* connection listing is executed, only then the credential store is checked,
\* and the elevated command and the QR window follow in that order.
C4_ConnectionListingBeforeStoreCheck ==
    Truthy(ssid) =>
        /\ InOrder(SpecOrder)
        /\ Precedes("wifi_done", "conn_start")
        /\ Precedes("conn_done", "kr_get")
        /\ Precedes("kr_get", "psk_start")

\* C4 as amended: the Wi-Fi listing completes, then the credential store is
\* checked, and only on a miss the connection listing is executed, then the
\* elevated command; the QR window comes last.
C4_StoreCheckBeforeConnectionListing ==
    /\ InOrder(CheckFirstOrder)
    /\ Precedes("wifi_done", "kr_get")
    /\ Precedes("kr_get", "conn_start")
    /\ Precedes("conn_done", "psk_start")
    /\ Has("conn_start") => ~Truthy(cached)

C4_Witness ==
    /\ Done /\ Truthy(ssid)
    /\ Has("kr_get") /\ Has("conn_done") /\ Has("psk_done") /\ Has("qr")

\* C5: at most one subprocess is in flight, a command starts only after the
\* previous one completed, at most three commands start, none of them twice.
C5_OneCommandAtATime ==
    /\ inflight \in {0, 1}
    /\ \A i \in DOMAIN events : events[i] \in Starts =>
          Cardinality({ k \in 1..(i - 1) : events[k] \in Starts })
            = Cardinality({ k \in 1..(i - 1) : events[k] \in Ends })
    /\ Len(cmds) <= 3
    /\ \A i, j \in DOMAIN cmds : i # j => cmds[i].cmd # cmds[j].cmd

C5_Witness == Done /\ Len(cmds) = 3 /\ inflight = 0

\* C6: the text in the QR code is "WIFI:T:WPA;S:" + s + ";P:" + p + ";;" with s
\* and p unchanged, s the SSID detected in step 1 and p the password obtained
\* for it in this run, from the cache or from the elevated command.
C6_QrPayload ==
    qrText # None =>
        LET t == qrText[1]
            s == qrArgs[1][1]
            p == qrArgs[1][2]
        IN  /\ Len(t) = 13 + Len(s) + 3 + Len(p) + 2
            /\ SubSeq(t, 1, 13) =
                  <<"W","I","F","I",":","T",":","W","P","A",";","S",":">>
            /\ SubSeq(t, 14, 13 + Len(s)) = s
            /\ SubSeq(t, 14 + Len(s), 16 + Len(s)) = <<";","P",":">>
            /\ SubSeq(t, 17 + Len(s), 16 + Len(s) + Len(p)) = p
            /\ SubSeq(t, 17 + Len(s) + Len(p), Len(t)) = <<";",";">>
            /\ Some(s) = ssid
            /\ Some(p) = IF Truthy(cached) THEN cached ELSE retrieved

C6_Witness ==
    /\ Done /\ qrText # None /\ Truthy(retrieved)
    /\ Len(qrArgs[1][1]) = 2 /\ Len(qrArgs[1][2]) = 2

\* C7: parsing is right for every output: get_current_ssid returns the whole
\* SSID field of the first active line (None when no line is active), and
\* get_wifi_password uses the whole UUID field of the first active connection
\* and runs no elevated command when none is active.
C7_ParsingCorrect ==
    /\ Has("wifi_done") => ssid = netSsid
    /\ Has("conn_done") =>
        /\ uuid = netUuid
        /\ netUuid = None => ~Has("psk_start")

\* C8: when no SSID is detected (the listing fails, has no active line, or the
\* active line's SSID is empty) main shows the "No SSID detected" dialog and
\* returns: no keyring read or write, no further command, no QR window.
C8_NoSsidEndsRun ==
    (Has("wifi_done") /\ ~Truthy(ssid)) =>
        /\ pc \in {"no_ssid", "done"}
        /\ Done => (Has("dlg_no_ssid") /\ Count(Dialogs) = 1)
        /\ ~Has("kr_get") /\ ~Has("kr_set") /\ ~Has("kr_set_error")
        /\ setCalls = <<>> /\ store = store0
        /\ Len(cmds) = 1 /\ cmds[1].cmd = "wifi_list"
        /\ qrText = None /\ qrArgs = None

C8_Witness == Done /\ ssid = Some(<<>>) /\ Has("dlg_no_ssid")

\* C9: the UUID given to the elevated command is the UUID of an active
\* connection whose SSID is the one get_current_ssid returned.
C9_ElevatedUuidIsOfDetectedSsid ==
    \A i \in DOMAIN cmds : cmds[i].cmd = "pkexec_psk" =>
        cmds[i].arg # None /\ cmds[i].arg[1] \in ssidUuids

\* C10 as stated: a run in which main returns shows either the QR window or an
\* error dialog, never both or neither, and the QR window exactly when a
\* non-empty SSID and a non-empty password for it were obtained, also when
\* storing a retrieved password fails.
C10_QrIffPasswordObtained ==
    (Done /\ ~Has("uncaught")) =>
        /\ (qrText # None) # (Count(Dialogs) >= 1)
        /\ (qrText # None) <=> (Truthy(ssid) /\ Obtained)

\* C10 as amended: never both outcomes, exactly one when main returns, and the
\* QR window exactly when a non-empty SSID and a non-empty password were
\* obtained and, for a retrieved password, set_password did not raise; when it
\* raises the run ends with the "Critical Error" dialog.
C10_QrIffPasswordObtainedAndStored ==
    /\ ~(qrText # None /\ Count(Dialogs) >= 1)
    /\ (Done /\ ~Has("uncaught")) => ((qrText # None) # (Count(Dialogs) >= 1))
    /\ Done => ((qrText # None) <=>
                    (Truthy(ssid) /\ Obtained /\ ~Has("kr_set_error")))
    /\ (Done /\ Has("kr_set_error")) => (Has("dlg_critical") /\ qrText = None)

C10_Witness ==
    Done /\ Truthy(retrieved) /\ Has("kr_set_error") /\ Has("dlg_critical")

====
